---- MODULE Spec2Model ----
(***************************************************************************)
(* The access-period logger of IoTPrototype/ppw1_iot_sample.py ("full")    *)
(* and IoTPrototype/ppw1_iot_sample_mini.py ("mini"): MainApp.init, loop,  *)
(* deinit, btnA_handler (start) and btnB_handler (stop), with the text     *)
(* they write to access_data.csv.                                          *)
(*                                                                         *)
(* The file is a sequence of tokens: every field a format() call produces  *)
(* is one string token, every "," and every "\n" it writes is a token of   *)
(* its own.  Temperatures and humidities are integers in hundredths.       *)
(***************************************************************************)
EXTENDS Integers, Sequences, FiniteSets, TLC

VARIABLES
    variant,      \* which source file runs: "full" or "mini"
    access,       \* self.access
    access_str,   \* self.access_str
    warning_str,  \* self.warning_str (mini only; the full variant has none)
    count,        \* self.count
    npm,          \* colour last written to the NeoPixel matrix
    file,         \* text written to access_data.csv, as tokens
    closed,       \* self.file.close() has run
    exists,       \* access_data.csv is on the file system
    parsed,       \* outcome of process_access_data, once it has run
    period,       \* an AccessPeriod instance of the desktop application
    pc,           \* the statement loop() or deinit() is about to run
    reg,          \* local values of the loop() iteration in progress
    rtc,          \* seconds the real-time clock has counted since init()
    periods,      \* history: number of start records written
    nodata,       \* history: loop() iterations that found no sensor data
    shown,        \* history: <<elapsed, colour>> of every tick of this period
    last          \* history: the last operation and the state it started from

vars == <<variant, access, access_str, warning_str, count, npm, file, closed,
          exists, parsed, period, pc, reg, rtc, periods, nodata, shown, last>>

(* ------------------------------ bounds -------------------------------- *)
MaxTime == 5        \* loop() iterations modelled by Spec
MaxLong == 14       \* loop() iterations modelled by SpecLong
MaxPeriods == 2     \* start records modelled
MaxNoData == 1      \* loop() iterations in which the sensor has no data
MaxLines == 4       \* lines of a log handed to the parser by SpecParse
MaxReadings == 3    \* data readings added to an AccessPeriod
MaxIrq == 3         \* loop() iterations modelled by SpecIrq

(* ----------------------------- constants ------------------------------ *)
Variants == {"full", "mini"}

Off == <<0, 0, 0>>
Green == <<0, 10, 0>>
Amber == <<10, 7, 0>>
Red == <<10, 0, 0>>

\* (temperature, humidity) pairs the BME680 may deliver, in hundredths
Readings == {<<2150, 4500>>}

(* ----------------------------- formatting ----------------------------- *)
\* "{:.2f}" of a value given in hundredths
Fmt2f(x) ==
    LET a == IF x < 0 THEN -x ELSE x
    IN  (IF x < 0 THEN "-" ELSE "") \o ToString(a \div 100) \o "."
        \o (IF a % 100 < 10 THEN "0" ELSE "") \o ToString(a % 100)

\* self.rtc.datetime(): (year, month, day, weekday, hour, minute, second, us)
\* of a clock set to (2019, 3, 5, 1, 9, 0, 0, 0) and read t seconds later
Datetime(t) ==
    <<2019, 3, 5, 1, 9 + (t \div 3600), (t \div 60) % 60, t % 60, 0>>

\* "{0}-{1}-{2}|{3}:{4}:{5}".format(year, month, day, hour, minute, second)
Timestamp(now) ==
    ToString(now[1]) \o "-" \o ToString(now[2]) \o "-" \o ToString(now[3])
    \o "|" \o ToString(now[5]) \o ":" \o ToString(now[6]) \o ":"
    \o ToString(now[7])

\* "{0}/{1}/{2}".format(day, month, year)
DateStr(now) ==
    ToString(now[3]) \o "/" \o ToString(now[2]) \o "/" \o ToString(now[1])

\* "{0}:{1}:{2}".format(hour, minute, second)
TimeStr(now) ==
    ToString(now[5]) \o ":" \o ToString(now[6]) \o ":" \o ToString(now[7])

DataLineWithGas(now, tm, rh) ==
    <<Timestamp(now), ",", Fmt2f(tm), ",", Fmt2f(rh), ",", Fmt2f(0), "\n">>

\* "{0},{1:.2f},{2:.2f}\n".format(timestamp, tm_reading, rh_reading)
DataLine(now, tm, rh) ==
    <<Timestamp(now), ",", Fmt2f(tm), ",", Fmt2f(rh), "\n">>

\* the text btnA_handler writes
StartLine(v, now) ==
    IF v = "full"
    THEN <<"ACCESS-STARTED", ",", DateStr(now), ",", TimeStr(now), "\n">>
    ELSE <<"ACCESS-STARTED", "\n">>

StopLineCountsOneMore(v, now, c) ==
    IF v = "full"
    THEN <<"ACCESS-STOPPED", ",", DateStr(now), ",", TimeStr(now), ",",
           ToString(c + 1), "\n">>
    ELSE <<"ACCESS-STOPPED", ",", ToString(c + 1), "\n">>

\* the text btnB_handler writes
StopLine(v, now, c) ==
    IF v = "full"
    THEN <<"ACCESS-STOPPED", ",", DateStr(now), ",", TimeStr(now), ",",
           ToString(c), "\n">>
    ELSE <<"ACCESS-STOPPED", ",", ToString(c), "\n">>

\* the text deinit writes while an access is active
DeinitLineWithoutCount(v, now, c) == <<"ACCESS-STOPPED">>

DeinitLine(v, now, c) ==
    IF v = "full"
    THEN <<"ACCESS-STOPPED", ",", DateStr(now), ",", TimeStr(now), ",",
           ToString(c), "\n">>
    ELSE <<"ACCESS-STOPPED", ",", ToString(c)>>

(* ------------------------------ the tier ------------------------------ *)
\* led_colour chosen by loop() from self.count
LedColour(v, c) ==
    IF v = "full"
    THEN IF c > 4 /\ c < 9 THEN Amber
         ELSE IF c >= 9 THEN Red
         ELSE Green
    ELSE IF c > 4 /\ c < 10 THEN Amber
         ELSE IF c > 9 THEN Red
         ELSE Green

WarningStrLate(v, c, w) ==
    IF v = "full" THEN w
    ELSE IF c > 5 /\ c < 10 THEN "AMBER"
         ELSE IF c > 9 THEN "RED"
         ELSE w

\* self.warning_str after loop()'s colour selection (mini); the full variant
\* keeps no such attribute
WarningStr(v, c, w) ==
    IF v = "full" THEN w
    ELSE IF c > 4 /\ c < 10 THEN "AMBER"
         ELSE IF c > 9 THEN "RED"
         ELSE w

(* ------------------------------- state -------------------------------- *)
\* the fields of MainApp the operations read and write
Snapshot ==
    [access |-> access, access_str |-> access_str,
     warning_str |-> warning_str, count |-> count, npm |-> npm,
     file |-> file, closed |-> closed]

\* process_access_data has not run
NotParsed == [ran |-> FALSE, error |-> "", periods |-> <<>>]

\* None, and a number, as the value of an attribute
None == [set |-> FALSE, value |-> 0]
Some(x) == [set |-> TRUE, value |-> x]

\* no AccessPeriod instance
NewPeriod == <<>>

\* loop() not running: no local values
NoRegs == [led_colour |-> Off, count |-> 0]

\* the state init() leaves: the file removed if present and opened "w+", no
\* access, count 0, matrix off
Init ==
    /\ variant \in Variants
    /\ exists = TRUE
    /\ parsed = NotParsed
    /\ period = NewPeriod
    /\ pc = "idle"
    /\ reg = NoRegs
    /\ access = FALSE
    /\ access_str = ""
    /\ warning_str = ""
    /\ count = 0
    /\ npm = Off
    /\ file = <<>>
    /\ closed = FALSE
    /\ rtc = 0
    /\ periods = 0
    /\ nodata = 0
    /\ shown = <<>>
    /\ last = [op |-> "init", raised |-> FALSE, pre |-> Snapshot]

(* ----------------------------- operations ----------------------------- *)
\* self.file.write(text)
Write(f, text) == f \o text

Stalled(c) == c

\* self.count += 1
Increment(c) == c + 1

\* what a handler that does nothing leaves behind
Ignored(op, didRaise) ==
    /\ last' = [op |-> op, raised |-> didRaise, pre |-> Snapshot]
    /\ UNCHANGED <<access, access_str, warning_str, count, npm, file, closed,
                   periods, shown>>

loop_data_unguarded(T) ==
    /\ ~closed
    /\ rtc < T
    /\ \E r \in Readings :
         /\ file' = Write(file, DataLine(Datetime(rtc), r[1], r[2]))
         /\ warning_str' = WarningStr(variant, count, warning_str)
         /\ npm' = LedColour(variant, count)
         /\ count' = Increment(count)
         /\ shown' = Append(shown, <<count, LedColour(variant, count)>>)
    /\ rtc' = rtc + 1
    /\ last' = [op |-> "tick", raised |-> FALSE, pre |-> Snapshot]
    /\ UNCHANGED <<exists, parsed, period, pc, reg>>
    /\ UNCHANGED <<variant, access, access_str, closed, periods, nodata>>

\* loop() when get_sensor_data() is true, while fewer than T iterations
\* have run: while an access is active it writes the data line, selects and
\* shows the colour, and counts; then sleep(1)
loop_data(T) ==
    /\ ~closed
    /\ rtc < T
    /\ \E r \in Readings :
         IF access
         THEN /\ file' = Write(file, DataLine(Datetime(rtc), r[1], r[2]))
              /\ warning_str' = WarningStr(variant, count, warning_str)
              /\ npm' = LedColour(variant, count)
              /\ count' = Increment(count)
              /\ shown' = Append(shown, <<count, LedColour(variant, count)>>)
         ELSE UNCHANGED <<file, warning_str, npm, count, shown>>
    /\ rtc' = rtc + 1
    /\ last' = [op |-> "tick", raised |-> FALSE, pre |-> Snapshot]
    /\ UNCHANGED <<exists, parsed, period, pc, reg>>
    /\ UNCHANGED <<variant, access, access_str, closed, periods, nodata>>

loop_nodata_counts(T) ==
    /\ ~closed
    /\ rtc < T
    /\ nodata < MaxNoData
    /\ nodata' = nodata + 1
    /\ rtc' = rtc + 1
    /\ count' = IF access THEN Increment(count) ELSE count
    /\ last' = [op |-> "nodata", raised |-> FALSE, pre |-> Snapshot]
    /\ UNCHANGED <<exists, parsed, period, pc, reg>>
    /\ UNCHANGED <<variant, access, access_str, warning_str, npm, file,
                   closed, periods, shown>>

\* loop() when get_sensor_data() is false: only the display refresh and
\* sleep(1)
loop_nodata(T) ==
    /\ ~closed
    /\ rtc < T
    /\ nodata < MaxNoData
    /\ nodata' = nodata + 1
    /\ rtc' = rtc + 1
    /\ last' = [op |-> "nodata", raised |-> FALSE, pre |-> Snapshot]
    /\ UNCHANGED <<exists, parsed, period, pc, reg>>
    /\ UNCHANGED <<variant, access, access_str, warning_str, count, npm, file,
                   closed, periods, shown>>

StartKeepsCount ==
    /\ periods < MaxPeriods
    /\ file' = Write(file, StartLine(variant, Datetime(rtc)))
    /\ access' = TRUE
    /\ access_str' = "ACCESS"
    /\ warning_str' = IF variant = "mini" THEN "GREEN" ELSE warning_str
    /\ count' = count
    /\ periods' = periods + 1
    /\ shown' = <<>>
    /\ last' = [op |-> "start", raised |-> FALSE, pre |-> Snapshot]
    /\ UNCHANGED <<npm, closed>>

\* the body of btnA_handler under "if not self.access"
Start ==
    /\ periods < MaxPeriods
    /\ file' = Write(file, StartLine(variant, Datetime(rtc)))
    /\ access' = TRUE
    /\ access_str' = "ACCESS"
    /\ warning_str' = IF variant = "mini" THEN "GREEN" ELSE warning_str
    /\ count' = 0
    /\ periods' = periods + 1
    /\ shown' = <<>>
    /\ last' = [op |-> "start", raised |-> FALSE, pre |-> Snapshot]
    /\ UNCHANGED <<npm, closed>>

btnA_unguarded ==
    /\ IF closed THEN Ignored("start", TRUE) ELSE Start
    /\ UNCHANGED <<exists, parsed, period, pc, reg>>
    /\ UNCHANGED <<variant, rtc, nodata>>

\* btnA_handler, the start button: nothing while an access is active; a
\* write to the closed file raises before any attribute is assigned
btnA_handler ==
    /\ IF access THEN Ignored("start", FALSE)
       ELSE IF closed THEN Ignored("start", TRUE)
       ELSE Start
    /\ UNCHANGED <<exists, parsed, period, pc, reg>>
    /\ UNCHANGED <<variant, rtc, nodata>>

StopKeepsMatrix ==
    /\ file' = Write(file, StopLine(variant, Datetime(rtc), count))
    /\ access' = FALSE
    /\ access_str' = ""
    /\ warning_str' = IF variant = "mini" THEN "" ELSE warning_str
    /\ npm' = npm
    /\ last' = [op |-> "stop", raised |-> FALSE, pre |-> Snapshot]
    /\ UNCHANGED <<count, closed, periods, shown>>

\* the body of btnB_handler under "if self.access"
Stop ==
    /\ file' = Write(file, StopLine(variant, Datetime(rtc), count))
    /\ access' = FALSE
    /\ access_str' = ""
    /\ warning_str' = IF variant = "mini" THEN "" ELSE warning_str
    /\ npm' = Off
    /\ last' = [op |-> "stop", raised |-> FALSE, pre |-> Snapshot]
    /\ UNCHANGED <<count, closed, periods, shown>>

btnB_unguarded ==
    /\ IF closed THEN Ignored("stop", TRUE) ELSE Stop
    /\ UNCHANGED <<exists, parsed, period, pc, reg>>
    /\ UNCHANGED <<variant, rtc, nodata>>

\* btnB_handler, the stop button: nothing while no access is active
btnB_handler ==
    /\ IF ~access THEN Ignored("stop", FALSE)
       ELSE IF closed THEN Ignored("stop", TRUE)
       ELSE Stop
    /\ UNCHANGED <<exists, parsed, period, pc, reg>>
    /\ UNCHANGED <<variant, rtc, nodata>>

deinit_always_stops ==
    /\ ~closed
    /\ npm' = Off
    /\ file' = Write(file, DeinitLine(variant, Datetime(rtc), count))
    /\ closed' = TRUE
    /\ last' = [op |-> "deinit", raised |-> FALSE, pre |-> Snapshot]
    /\ UNCHANGED <<exists, parsed, period, pc, reg>>
    /\ UNCHANGED <<variant, access, access_str, warning_str, count, rtc,
                   periods, nodata, shown>>

\* deinit(): matrix off, a stop record if an access is active (self.access
\* is left as it is), and the file closed
deinit ==
    /\ ~closed
    /\ npm' = Off
    /\ file' = IF access
               THEN Write(file, DeinitLine(variant, Datetime(rtc), count))
               ELSE file
    /\ closed' = TRUE
    /\ last' = [op |-> "deinit", raised |-> FALSE, pre |-> Snapshot]
    /\ UNCHANGED <<exists, parsed, period, pc, reg>>
    /\ UNCHANGED <<variant, access, access_str, warning_str, count, rtc,
                   periods, nodata, shown>>

\* every operation, over a short run
Next ==
    \/ loop_data(MaxTime)
    \/ loop_nodata(MaxTime)
    \/ btnA_handler
    \/ btnB_handler
    \/ deinit

Spec == Init /\ [][Next]_vars

\* a long run in which the sensor has data in every loop() iteration
NextLong ==
    \/ loop_data(MaxLong)
    \/ btnA_handler
    \/ btnB_handler
    \/ deinit

SpecLong == Init /\ [][NextLong]_vars

(* --------------------------- reading the log -------------------------- *)
RECURSIVE SplitFrom(_, _, _, _)
\* the runs of tokens of seq from position i on, between occurrences of
\* sep, the run in progress starting at position from
SplitFrom(seq, sep, from, i) ==
    IF i > Len(seq) THEN <<SubSeq(seq, from, Len(seq))>>
    ELSE IF seq[i] = sep
         THEN <<SubSeq(seq, from, i - 1)>> \o SplitFrom(seq, sep, i + 1, i + 1)
         ELSE SplitFrom(seq, sep, from, i + 1)

\* the runs of tokens of seq between occurrences of sep
SplitOn(seq, sep) == SplitFrom(seq, sep, 1, 1)

RECURSIVE Join(_)
\* the text of a run of tokens
Join(toks) == IF toks = <<>> THEN "" ELSE Head(toks) \o Join(Tail(toks))

\* the lines of the file as a reader sees them: text up to each "\n", and
\* the text after the last "\n" if there is any
Lines(f) ==
    LET parts == SplitOn(f, "\n")
    IN  IF parts[Len(parts)] = <<>>
        THEN SubSeq(parts, 1, Len(parts) - 1)
        ELSE parts

\* the comma-separated fields of a line
Fields(line) ==
    LET parts == SplitOn(line, ",")
    IN  [i \in 1..Len(parts) |-> Join(parts[i])]

\* the record a line holds, by its first field
Kind(line) ==
    LET first == Fields(line)[1]
    IN  IF first = "ACCESS-STARTED" THEN "start"
        ELSE IF first = "ACCESS-STOPPED" THEN "stop"
        ELSE "reading"

\* the kinds of the records of the file, in file order
Kinds(f) == LET ls == Lines(f) IN [i \in 1..Len(ls) |-> Kind(ls[i])]

\* the file ends at a line boundary
AtLineStart(f) == f = <<>> \/ f[Len(f)] = "\n"

\* the tokens g holds after those of f
Added(f, g) == SubSeq(g, Len(f) + 1, Len(g))

\* g is f with exactly one more line, and that line is complete
OneLineAdded(f, g) ==
    /\ AtLineStart(f)
    /\ Len(g) > Len(f)
    /\ SubSeq(g, 1, Len(f)) = f
    /\ Lines(Added(f, g)) = <<SubSeq(g, Len(f) + 1, Len(g) - 1)>>
    /\ AtLineStart(g)

\* the one line of a text that holds one line
OnlyLine(text) == Lines(text)[1]

\* the three-tier rule as the specification states it
TierOf(e) == IF e <= 4 THEN "GREEN" ELSE IF e <= 9 THEN "AMBER" ELSE "RED"

ColourOf(tier) ==
    IF tier = "GREEN" THEN Green ELSE IF tier = "AMBER" THEN Amber ELSE Red

(* ------------------------ process_access_data ------------------------ *)
\* the names bound at module level of ppw1_iot_sample.py: its imports, the
\* class and main; csv and datetime are not among them
ModuleNames ==
    {"os", "sleep", "IoTApp", "BME680", "OS_2X", "OS_4X", "OS_8X",
     "FILTER_SIZE_3", "ENABLE_GAS_MEAS", "NeoPixel", "Pin", "MainApp", "main"}

\* the rows csv.reader yields: the fields of each line, none for a blank line
Rows(f) ==
    LET ls == Lines(f)
    IN  [i \in 1..Len(ls) |-> IF ls[i] = <<>> THEN <<>> ELSE Fields(ls[i])]

\* datetime.strptime(text, "%Y-%m-%d|%H:%M:%S") accepts the texts of this
\* form, here those of the clock's first MaxLong seconds
IsTimestamp(text) == \E t \in 0..MaxLong : Timestamp(Datetime(t)) = text

\* the time it returns, in seconds since the clock was set
Strptime(text) == CHOOSE t \in 0..MaxLong : Timestamp(Datetime(t)) = text

\* current_access = None
NoAccess == [open |-> FALSE, start_time |-> 0, readings |-> <<>>]

RECURSIVE ReadRows(_, _, _, _, _)
\* the for loop over the rows, from row i on, with current_access cur and
\* access_periods done: the periods collected, or the exception raised
ReadRows(names, rows, i, cur, done) ==
    IF i > Len(rows) THEN [error |-> "", periods |-> done]
    ELSE IF Len(rows[i]) < 2 THEN [error |-> "ValueError", periods |-> done]
    ELSE IF "datetime" \notin names
         THEN [error |-> "NameError", periods |-> done]
    ELSE IF ~IsTimestamp(rows[i][2])
         THEN [error |-> "ValueError", periods |-> done]
    ELSE LET event_type == rows[i][1]
             timestamp == Strptime(rows[i][2])
             data == SubSeq(rows[i], 3, Len(rows[i]))
         IN  IF event_type = "ACCESS-STARTED"
             THEN ReadRows(names, rows, i + 1,
                           [open |-> TRUE, start_time |-> timestamp,
                            readings |-> <<>>], done)
             ELSE IF event_type = "ACCESS-STOPPED" /\ cur.open
             THEN ReadRows(names, rows, i + 1, NoAccess,
                           Append(done, [start_time |-> cur.start_time,
                                         end_time |-> timestamp,
                                         readings |-> cur.readings]))
             ELSE IF cur.open
             THEN ReadRows(names, rows, i + 1,
                           [cur EXCEPT !.readings =
                               Append(@, [time |-> timestamp, data |-> data])],
                           done)
             ELSE ReadRows(names, rows, i + 1, cur, done)

RECURSIVE Render(_, _, _)
\* the printing loop over access_periods from period k on, with the periods
\* printed so far: reading[1] and reading[2] are data[1] and data[2]
Render(found, k, printed) ==
    IF k > Len(found) THEN [error |-> "", periods |-> printed]
    ELSE IF \E m \in 1..Len(found[k].readings) :
                Len(found[k].readings[m].data) < 2
         THEN [error |-> "IndexError", periods |-> printed]
    ELSE Render(found, k + 1,
                Append(printed,
                       [start_time |-> found[k].start_time,
                        end_time |-> found[k].end_time,
                        duration |-> found[k].end_time - found[k].start_time,
                        readings |-> found[k].readings]))

\* process_access_data on the text f of access_data.csv, run in a module
\* that binds names: the periods it prints, or the exception it raises
Process(names, present, f) ==
    IF ~present THEN [ran |-> TRUE, error |-> "OSError", periods |-> <<>>]
    ELSE IF "csv" \notin names
         THEN [ran |-> TRUE, error |-> "NameError", periods |-> <<>>]
    ELSE LET read == ReadRows(names, Rows(f), 1, NoAccess, <<>>)
         IN  IF read.error # ""
             THEN [ran |-> TRUE, error |-> read.error, periods |-> <<>>]
             ELSE LET out == Render(read.periods, 1, <<>>)
                  IN  [ran |-> TRUE, error |-> out.error,
                       periods |-> out.periods]

\* process_access_data, run once the writer has released the file
process_access_data ==
    /\ closed
    /\ ~parsed.ran
    /\ parsed' = Process(ModuleNames, exists, file)
    /\ UNCHANGED <<variant, access, access_str, warning_str, count, npm, file,
                   closed, exists, period, pc, reg, rtc, periods, nodata,
                   shown, last>>

\* a short run of the writer followed by the parser
NextRead ==
    \/ loop_data(MaxTime)
    \/ loop_nodata(MaxTime)
    \/ btnA_handler
    \/ btnB_handler
    \/ deinit
    \/ process_access_data

SpecRead == Init /\ [][NextRead]_vars

\* lines a log may hold: the start, reading and stop lines of both
\* variants, and the same three records with a timestamp as second field,
\* which is what process_access_data unpacks
LogLines ==
    {StartLine(v, Datetime(0)) : v \in Variants}
    \cup {DataLine(Datetime(1), r[1], r[2]) : r \in Readings}
    \cup {StopLine(v, Datetime(2), 1) : v \in Variants}
    \cup {<<"ACCESS-STARTED", ",", Timestamp(Datetime(0)), "\n">>,
          <<"READING", ",", Timestamp(Datetime(1)), ",", "21.50", ",",
            "45.00", "\n">>,
          <<"ACCESS-STOPPED", ",", Timestamp(Datetime(2)), "\n">>}

RECURSIVE Logs(_)
\* the logs of at most n such lines
Logs(n) ==
    IF n = 0 THEN {<<>>}
    ELSE LET shorter == Logs(n - 1)
         IN  shorter \cup {l \o x : l \in shorter, x \in LogLines}

\* a log of any such lines is on the file system, written and closed by an
\* earlier run; the parser is the full variant's
InitParse ==
    /\ variant = "full"
    /\ exists = TRUE
    /\ parsed = NotParsed
    /\ period = NewPeriod
    /\ pc = "idle"
    /\ reg = NoRegs
    /\ access = FALSE
    /\ access_str = ""
    /\ warning_str = ""
    /\ count = 0
    /\ npm = Off
    /\ file \in Logs(MaxLines)
    /\ closed = TRUE
    /\ rtc = 0
    /\ periods = 0
    /\ nodata = 0
    /\ shown = <<>>
    /\ last = [op |-> "log", raised |-> FALSE, pre |-> Snapshot]

NextParse == process_access_data

SpecParse == InitParse /\ [][NextParse]_vars

(* --------------------------- start of a run --------------------------- *)
\* a record left in access_data.csv by an earlier run
Stale == <<"ACCESS-STARTED", "\n", "ACCESS-STOPPED", ",", "earlier", "\n">>

\* what access_data.csv may hold before the run
OldLogs == {<<>>, Stale, Stale \o Stale}

\* before init(): the file of an earlier run may be on the file system, no
\* handle is open, and the attributes are not set yet
InitBoot ==
    /\ variant \in Variants
    /\ exists \in BOOLEAN
    /\ file \in (IF exists THEN OldLogs ELSE {<<>>})
    /\ parsed = NotParsed
    /\ period = NewPeriod
    /\ pc = "idle"
    /\ reg = NoRegs
    /\ access = FALSE
    /\ access_str = ""
    /\ warning_str = ""
    /\ count = 0
    /\ npm = Off
    /\ closed = TRUE
    /\ rtc = 0
    /\ periods = 0
    /\ nodata = 0
    /\ shown = <<>>
    /\ last = [op |-> "boot", raised |-> FALSE, pre |-> Snapshot]

\* file_exists(name): the name is in os.listdir()
file_exists(present) == present

\* os.remove(name) on the file system entry [present, text]
Remove(entry) == [present |-> FALSE, text |-> <<>>]

\* open(name, mode): "w+" creates the file or truncates it, "a+" creates it
\* or keeps what it holds
Open(entry, mode) ==
    IF mode = "w+" \/ ~entry.present
    THEN [present |-> TRUE, text |-> <<>>]
    ELSE [present |-> TRUE, text |-> entry.text]

init_keeps_log ==
    /\ last.op = "boot"
    /\ LET opened == Open([present |-> exists, text |-> file], "a+")
       IN  /\ exists' = opened.present
           /\ file' = opened.text
    /\ closed' = FALSE
    /\ access' = FALSE
    /\ access_str' = ""
    /\ warning_str' = ""
    /\ count' = 0
    /\ npm' = Off
    /\ rtc' = 0
    /\ last' = [op |-> "init", raised |-> FALSE, pre |-> Snapshot]
    /\ UNCHANGED <<variant, parsed, period, pc, reg, periods, nodata, shown>>

\* init(): the clock is set, a file of an earlier run is removed, the log is
\* opened with "w+", and the attributes and the matrix are reset
init ==
    /\ last.op = "boot"
    /\ LET found == [present |-> exists, text |-> file]
           kept == IF file_exists(found.present) THEN Remove(found) ELSE found
           opened == Open(kept, "w+")
       IN  /\ exists' = opened.present
           /\ file' = opened.text
    /\ closed' = FALSE
    /\ access' = FALSE
    /\ access_str' = ""
    /\ warning_str' = ""
    /\ count' = 0
    /\ npm' = Off
    /\ rtc' = 0
    /\ last' = [op |-> "init", raised |-> FALSE, pre |-> Snapshot]
    /\ UNCHANGED <<variant, parsed, period, pc, reg, periods, nodata, shown>>

\* a run from before init()
NextBoot ==
    \/ init
    \/ last.op # "boot" /\ loop_data(MaxTime)
    \/ last.op # "boot" /\ loop_nodata(MaxTime)
    \/ last.op # "boot" /\ btnA_handler
    \/ last.op # "boot" /\ btnB_handler
    \/ last.op # "boot" /\ deinit

SpecBoot == InitBoot /\ [][NextBoot]_vars

(* ---------------------------- end of a run ---------------------------- *)
\* deinit() in which the write of the stop record raises: the matrix is
\* already off, the exception leaves deinit() before self.file.close()
deinit_write_fails ==
    /\ ~closed
    /\ access
    /\ npm' = Off
    /\ last' = [op |-> "deinit", raised |-> TRUE, pre |-> Snapshot]
    /\ UNCHANGED <<exists, parsed, period, pc, reg>>
    /\ UNCHANGED <<variant, access, access_str, warning_str, count, file,
                   closed, rtc, periods, nodata, shown>>

\* the run is over once deinit() has raised
Aborted == last.op = "deinit" /\ last.raised

\* a run whose final write may fail
NextFail ==
    \/ ~Aborted /\ loop_data(MaxTime)
    \/ ~Aborted /\ loop_nodata(MaxTime)
    \/ ~Aborted /\ btnA_handler
    \/ ~Aborted /\ btnB_handler
    \/ ~Aborted /\ deinit
    \/ ~Aborted /\ deinit_write_fails

SpecFail == Init /\ [][NextFail]_vars

(* --------------------------- failing writes --------------------------- *)
loop_counts_then_fails(T) ==
    /\ ~closed
    /\ rtc < T
    /\ access
    /\ count' = Increment(count)
    /\ last' = [op |-> "tick", raised |-> TRUE, pre |-> Snapshot]
    /\ UNCHANGED <<variant, access, access_str, warning_str, npm, file,
                   closed, exists, parsed, period, pc, reg, rtc, periods,
                   nodata, shown>>

\* loop() during an access, self.file.write(data_line) raising: the
\* statements after it (colour, matrix, count, sleep) are not reached
loop_write_fails(T) ==
    /\ ~closed
    /\ rtc < T
    /\ access
    /\ last' = [op |-> "tick", raised |-> TRUE, pre |-> Snapshot]
    /\ UNCHANGED <<variant, access, access_str, warning_str, count, npm, file,
                   closed, exists, parsed, period, pc, reg, rtc, periods,
                   nodata, shown>>

\* btnA_handler from idle, self.file.write raising: the assignments after
\* it are not reached
btnA_write_fails ==
    /\ ~closed
    /\ ~access
    /\ last' = [op |-> "start", raised |-> TRUE, pre |-> Snapshot]
    /\ UNCHANGED <<variant, access, access_str, warning_str, count, npm, file,
                   closed, exists, parsed, period, pc, reg, rtc, periods,
                   nodata, shown>>

\* btnB_handler during an access, self.file.write raising: the assignments
\* and the fill after it are not reached
btnB_write_fails ==
    /\ ~closed
    /\ access
    /\ last' = [op |-> "stop", raised |-> TRUE, pre |-> Snapshot]
    /\ UNCHANGED <<variant, access, access_str, warning_str, count, npm, file,
                   closed, exists, parsed, period, pc, reg, rtc, periods,
                   nodata, shown>>

\* a run in which any write of loop() and of the handlers may fail
NextStorage ==
    \/ loop_data(MaxTime)
    \/ loop_nodata(MaxTime)
    \/ btnA_handler
    \/ btnB_handler
    \/ deinit
    \/ loop_write_fails(MaxTime)
    \/ btnA_write_fails
    \/ btnB_write_fails

SpecStorage == Init /\ [][NextStorage]_vars

(* ------------------ loop() and deinit() statement by statement -------- *)
\* loop() is entered with sensor data: the readings and the clock are read
loop_enter ==
    /\ pc = "idle"
    /\ ~closed
    /\ rtc < MaxIrq
    /\ pc' = "check"
    /\ UNCHANGED <<variant, access, access_str, warning_str, count, npm, file,
                   closed, exists, parsed, period, reg, rtc, periods, nodata,
                   shown, last>>

\* if self.access:
loop_check ==
    /\ pc = "check"
    /\ pc' = IF access THEN "write" ELSE "sleep"
    /\ UNCHANGED <<variant, access, access_str, warning_str, count, npm, file,
                   closed, exists, parsed, period, reg, rtc, periods, nodata,
                   shown, last>>

\* self.file.write(data_line)
loop_write ==
    /\ pc = "write"
    /\ \E r \in Readings :
          file' = Write(file, DataLine(Datetime(rtc), r[1], r[2]))
    /\ pc' = "colour"
    /\ UNCHANGED <<variant, access, access_str, warning_str, count, npm,
                   closed, exists, parsed, period, reg, rtc, periods, nodata,
                   shown, last>>

\* led_colour (and in the mini variant warning_str) chosen from self.count
loop_colour ==
    /\ pc = "colour"
    /\ reg' = [reg EXCEPT !.led_colour = LedColour(variant, count)]
    /\ warning_str' = WarningStr(variant, count, warning_str)
    /\ pc' = "fill"
    /\ UNCHANGED <<variant, access, access_str, count, npm, file, closed,
                   exists, parsed, period, rtc, periods, nodata, shown, last>>

\* self.npm.fill(led_colour); self.npm.write()
loop_fill ==
    /\ pc = "fill"
    /\ npm' = reg.led_colour
    /\ pc' = "load"
    /\ UNCHANGED <<variant, access, access_str, warning_str, count, file,
                   closed, exists, parsed, period, reg, rtc, periods, nodata,
                   shown, last>>

\* self.count += 1, the read of self.count
loop_load ==
    /\ pc = "load"
    /\ reg' = [reg EXCEPT !.count = count]
    /\ pc' = "store"
    /\ UNCHANGED <<variant, access, access_str, warning_str, count, npm, file,
                   closed, exists, parsed, period, rtc, periods, nodata,
                   shown, last>>

\* self.count += 1, the assignment of the sum
loop_store ==
    /\ pc = "store"
    /\ count' = Increment(reg.count)
    /\ pc' = "sleep"
    /\ UNCHANGED <<variant, access, access_str, warning_str, npm, file,
                   closed, exists, parsed, period, reg, rtc, periods, nodata,
                   shown, last>>

\* the display refresh and sleep(1), which end the iteration
loop_sleep ==
    /\ pc = "sleep"
    /\ rtc' = rtc + 1
    /\ reg' = NoRegs
    /\ pc' = "idle"
    /\ UNCHANGED <<variant, access, access_str, warning_str, count, npm, file,
                   closed, exists, parsed, period, periods, nodata, shown,
                   last>>

\* deinit() is entered after the last loop(): self.npm.fill((0, 0, 0))
deinit_enter ==
    /\ pc = "idle"
    /\ ~closed
    /\ npm' = Off
    /\ pc' = "deinit check"
    /\ UNCHANGED <<variant, access, access_str, warning_str, count, file,
                   closed, exists, parsed, period, reg, rtc, periods, nodata,
                   shown, last>>

\* if self.access:
deinit_check ==
    /\ pc = "deinit check"
    /\ pc' = IF access THEN "deinit write" ELSE "deinit close"
    /\ UNCHANGED <<variant, access, access_str, warning_str, count, npm, file,
                   closed, exists, parsed, period, reg, rtc, periods, nodata,
                   shown, last>>

\* self.file.write of the stop record
deinit_write ==
    /\ pc = "deinit write"
    /\ file' = Write(file, DeinitLine(variant, Datetime(rtc), count))
    /\ pc' = "deinit close"
    /\ UNCHANGED <<variant, access, access_str, warning_str, count, npm,
                   closed, exists, parsed, period, reg, rtc, periods, nodata,
                   shown, last>>

\* self.file.close()
deinit_close ==
    /\ pc = "deinit close"
    /\ closed' = TRUE
    /\ pc' = "done"
    /\ UNCHANGED <<variant, access, access_str, warning_str, count, npm, file,
                   exists, parsed, period, reg, rtc, periods, nodata, shown,
                   last>>

\* a run in which the button handlers interrupt loop() and deinit() between
\* any two statements; a handler runs to its end
NextIrq ==
    \/ loop_enter
    \/ loop_check
    \/ loop_write
    \/ loop_colour
    \/ loop_fill
    \/ loop_load
    \/ loop_store
    \/ loop_sleep
    \/ deinit_enter
    \/ deinit_check
    \/ deinit_write
    \/ deinit_close
    \/ btnA_handler
    \/ btnB_handler

SpecIrq == Init /\ [][NextIrq]_vars

(* ------------------- AccessPeriod (desktop application) --------------- *)
\* temperatures and humidities a DataReading may carry
TempValues == {-1, 0, 1}
HumidityValues == {0, 1, 2}

\* DataReading(timestamp, temp_data, humidity_data)
DataReading(t, h) == [temp_data |-> t, humidity_data |-> h]

\* an average held as the quotient total / n
Average(total, n) == [set |-> TRUE, total |-> total, n |-> n]
NoAverage == [set |-> FALSE, total |-> 0, n |-> 1]

\* Python's truth value of an attribute: None and zero are false
Truthy(x) == x.set /\ x.value # 0
TruthyAverage(a) == a.set /\ a.total # 0

RECURSIVE SumHumidity(_)
\* total += data_reading.humidity_data over the list
SumHumidity(readings) ==
    IF readings = <<>> THEN 0
    ELSE Head(readings).humidity_data + SumHumidity(Tail(readings))

\* calculate_humidity_average(): total / len(self.__data_readings)
calculate_humidity_average(readings) ==
    Average(SumHumidity(readings), Len(readings))

\* add_data_reading(data_reading) on the instance p
AddDataReading(p, data_reading) ==
    LET readings == Append(p.data_readings, data_reading)
    IN  [data_readings |-> readings,
         temp_max |->
             IF ~Truthy(p.temp_max) THEN Some(data_reading.temp_data)
             ELSE IF data_reading.temp_data > p.temp_max.value
                  THEN Some(data_reading.temp_data)
                  ELSE p.temp_max,
         humidity_average |->
             IF ~TruthyAverage(p.humidity_average)
             THEN Average(data_reading.humidity_data, 1)
             ELSE calculate_humidity_average(readings)]

add_data_reading ==
    /\ Len(period.data_readings) < MaxReadings
    /\ \E t \in TempValues, h \in HumidityValues :
          period' = AddDataReading(period, DataReading(t, h))
    /\ UNCHANGED <<variant, access, access_str, warning_str, count, npm, file,
                   closed, exists, parsed, pc, reg, rtc, periods, nodata,
                   shown, last>>

\* a new AccessPeriod; the logger is not running
InitPeriod ==
    /\ variant = "full"
    /\ exists = FALSE
    /\ parsed = NotParsed
    /\ period = [data_readings |-> <<>>, temp_max |-> None,
                 humidity_average |-> NoAverage]
    /\ pc = "idle"
    /\ reg = NoRegs
    /\ access = FALSE
    /\ access_str = ""
    /\ warning_str = ""
    /\ count = 0
    /\ npm = Off
    /\ file = <<>>
    /\ closed = TRUE
    /\ rtc = 0
    /\ periods = 0
    /\ nodata = 0
    /\ shown = <<>>
    /\ last = [op |-> "new", raised |-> FALSE, pre |-> Snapshot]

NextPeriod == add_data_reading

SpecPeriod == InitPeriod /\ [][NextPeriod]_vars

(* ------------------------------- claims ------------------------------- *)
\* a handler or loop() has just run on a live log (the file still open)
Ran(op) == last.op = op /\ ~last.pre.closed

\* C1: every tick of an access period shows the colour of the tier of the
\* pre-increment count (GREEN up to 4, AMBER from 5 to 9, RED from 10), in
\* both variants, so that 13 ticks show GREEN x5, AMBER x5, RED x3.
C1_TierOfEveryTick ==
    /\ \A i \in 1..Len(shown) : shown[i][2] = ColourOf(TierOf(shown[i][1]))
    /\ Len(shown) = 13 =>
         [i \in 1..13 |-> shown[i][2]] =
           <<Green, Green, Green, Green, Green,
             Amber, Amber, Amber, Amber, Amber, Red, Red, Red>>

\* C2: after start, count equals the number of ticks (loop() iterations
\* that had a reading) run since, and the k-th of them used count k-1;
\* iterations without sensor data do not count.
C2_CountIsTicks ==
    /\ count = Len(shown)
    /\ \A i \in 1..Len(shown) : shown[i][1] = i - 1

C2_Witness ==
    /\ access
    /\ periods = 2
    /\ nodata = 1
    /\ count = 3
    /\ Len(shown) = 3

\* C3: start from idle opens an access with count 0 and tier GREEN
\* (warning_str in the mini variant, the colour the count selects in both)
\* and adds exactly one line, an ACCESS-STARTED record, to the log.
C3_StartFromIdle ==
    (Ran("start") /\ ~last.pre.access) =>
        /\ access
        /\ count = 0
        /\ variant = "mini" => warning_str = "GREEN"
        /\ LedColour(variant, count) = Green
        /\ OneLineAdded(last.pre.file, file)
        /\ Kind(OnlyLine(Added(last.pre.file, file))) = "start"

C3_Witness ==
    /\ Ran("start")
    /\ ~last.pre.access
    /\ last.pre.count = 2
    /\ access
    /\ periods = 2

\* C4: stop from an active access goes idle and adds exactly one line, an
\* ACCESS-STOPPED record whose last field is the count at that moment.
C4_StopFromActive ==
    (Ran("stop") /\ last.pre.access) =>
        /\ ~access
        /\ count = last.pre.count
        /\ OneLineAdded(last.pre.file, file)
        /\ Kind(OnlyLine(Added(last.pre.file, file))) = "stop"
        /\ LET fs == Fields(OnlyLine(Added(last.pre.file, file)))
           IN  fs[Len(fs)] = ToString(last.pre.count)

C4_Witness ==
    /\ Ran("stop")
    /\ last.pre.access
    /\ last.pre.count = 3
    /\ ~access

\* C5: start while an access is active changes nothing: access, count,
\* strings, matrix and log are as before.
C5_StartWhileActive ==
    (last.op = "start" /\ last.pre.access) => Snapshot = last.pre

C5_Witness ==
    /\ Ran("start")
    /\ last.pre.access
    /\ count = 2
    /\ npm = Green

\* C6: stop while idle changes nothing and writes no record.
C6_StopWhileIdle ==
    (last.op = "stop" /\ ~last.pre.access) => Snapshot = last.pre

C6_Witness ==
    /\ Ran("stop")
    /\ ~last.pre.access
    /\ periods = 1
    /\ count = 2
    /\ ~access

\* C7: loop() while idle, with or without a reading, writes no record and
\* leaves access, count, strings and matrix as they were.
C7_TickWhileIdle ==
    (last.op \in {"tick", "nodata"} /\ ~last.pre.access) => Snapshot = last.pre

C7_Witness ==
    /\ Ran("tick")
    /\ ~last.pre.access
    /\ periods = 1
    /\ count = 2

RECURSIVE OpenAfter(_, _)
\* reading a sequence of record kinds from a state with a block open or
\* not: whether a block is open at the end, or "bad" when a start meets an
\* open block or a reading or a stop meets none
OpenAfter(ks, open) ==
    IF ks = <<>> THEN IF open THEN "open" ELSE "shut"
    ELSE IF Head(ks) = "start"
         THEN IF open THEN "bad" ELSE OpenAfter(Tail(ks), TRUE)
    ELSE IF Head(ks) = "reading"
         THEN IF open THEN OpenAfter(Tail(ks), TRUE) ELSE "bad"
    ELSE IF open THEN OpenAfter(Tail(ks), FALSE) ELSE "bad"

\* C8: the log is a sequence of complete blocks (start, readings, stop)
\* followed by at most one unfinished block, and a block is unfinished
\* exactly while an access is active on an open file.
C8_LogIsBlocks ==
    OpenAfter(Kinds(file), FALSE) =
        IF access /\ ~closed THEN "open" ELSE "shut"

C8_Witness ==
    /\ Kinds(file) = <<"start", "reading", "stop", "start", "reading">>
    /\ access

\* C9: while no access is active the matrix is off, and in the mini
\* variant warning_str is empty.
C9_IdleShowsNothing ==
    ~access => /\ npm = Off
               /\ variant = "mini" => warning_str = ""

C9_Witness ==
    /\ Ran("stop")
    /\ ~access
    /\ variant = "mini"
    /\ last.pre.npm = Red
    /\ last.pre.warning_str = "RED"
    /\ npm = Off

\* C10: in the mini variant, while an access is active, warning_str is the
\* tier of the count the latest tick of this period used, GREEN before the
\* first tick.
C10_WarningStrIsTier ==
    (variant = "mini" /\ access) =>
        warning_str = IF shown = <<>> THEN "GREEN"
                      ELSE TierOf(shown[Len(shown)][1])

C10_Witness ==
    /\ variant = "mini"
    /\ access
    /\ periods = 2
    /\ last.pre.warning_str = "GREEN"
    /\ warning_str = "AMBER"
    /\ \E i \in 1..Len(file) : file[i] = "ACCESS-STOPPED" /\ file[i + 2] = "7"

\* C11: every write adds exactly one newline-terminated line, so the log
\* always ends at a line boundary.
C11_EveryRecordIsALine ==
    /\ AtLineStart(file)
    /\ file # last.pre.file => OneLineAdded(last.pre.file, file)

\* the texts of the counts, timestamps and readings a run can write
CountTexts == {ToString(n) : n \in 0..MaxTime}
TimestampTexts == {Timestamp(Datetime(t)) : t \in 0..MaxTime}
DateTexts == {DateStr(Datetime(t)) : t \in 0..MaxTime}
TimeTexts == {TimeStr(Datetime(t)) : t \in 0..MaxTime}

\* a reading line: timestamp, temperature, humidity
IsReadingRow(fs) ==
    /\ Len(fs) = 3
    /\ fs[1] \in TimestampTexts
    /\ \E r \in Readings : fs[2] = Fmt2f(r[1]) /\ fs[3] = Fmt2f(r[2])

\* C12: in both variants a start record is the single field ACCESS-STARTED,
\* a stop record the two fields ACCESS-STOPPED and the count, a reading
\* record the three fields timestamp, temperature, humidity.
C12_RecordShapes ==
    \A i \in 1..Len(Lines(file)) :
        LET fs == Fields(Lines(file)[i])
        IN  IF fs[1] = "ACCESS-STARTED" THEN fs = <<"ACCESS-STARTED">>
            ELSE IF fs[1] = "ACCESS-STOPPED"
                 THEN Len(fs) = 2 /\ fs[2] \in CountTexts
            ELSE IsReadingRow(fs)

\* C12 as amended: the mini variant writes ACCESS-STARTED alone and
\* ACCESS-STOPPED,count; the full variant writes ACCESS-STARTED,date,time
\* and ACCESS-STOPPED,date,time,count; both write timestamp,temperature,
\* humidity; the count is the last field of a stop record, and after a stop
\* or a shutdown of an active access it is the current count.
C12_RecordShapesByVariant ==
    LET ls == Lines(file)
    IN  /\ \A i \in 1..Len(ls) :
            LET fs == Fields(ls[i])
            IN  IF fs[1] = "ACCESS-STARTED"
                THEN IF variant = "mini" THEN fs = <<"ACCESS-STARTED">>
                     ELSE /\ Len(fs) = 3
                          /\ fs[2] \in DateTexts
                          /\ fs[3] \in TimeTexts
                ELSE IF fs[1] = "ACCESS-STOPPED"
                THEN IF variant = "mini"
                     THEN Len(fs) = 2 /\ fs[2] \in CountTexts
                     ELSE /\ Len(fs) = 4
                          /\ fs[2] \in DateTexts
                          /\ fs[3] \in TimeTexts
                          /\ fs[4] \in CountTexts
                ELSE IsReadingRow(fs)
        /\ (last.op \in {"stop", "deinit"} /\ last.pre.access
                /\ ~last.pre.closed) =>
               LET fs == Fields(ls[Len(ls)])
               IN  fs[1] = "ACCESS-STOPPED" /\ fs[Len(fs)] = ToString(count)

C12_Witness ==
    /\ variant = "full"
    /\ last.op = "deinit"
    /\ Kinds(file) = <<"start", "reading", "stop", "start", "reading", "stop">>

(* the reconstruction the specification asks of the parser *)
RECURSIVE Policy(_, _, _, _)
\* reading record kinds ks from position i on, with the readings of the open
\* period (or none open) and the periods closed so far: a start opens a new
\* period and drops an open one, a reading joins the open period, a stop
\* closes it, and anything met while none is open is dropped.  A period is
\* the positions of its readings.
Policy(ks, i, cur, done) ==
    IF i > Len(ks) THEN done
    ELSE IF ks[i] = "start"
         THEN Policy(ks, i + 1, [open |-> TRUE, readings |-> <<>>], done)
    ELSE IF ks[i] = "stop"
         THEN IF cur.open
              THEN Policy(ks, i + 1, [open |-> FALSE, readings |-> <<>>],
                          Append(done, cur.readings))
              ELSE Policy(ks, i + 1, cur, done)
    ELSE IF cur.open
         THEN Policy(ks, i + 1,
                     [cur EXCEPT !.readings = Append(@, i)], done)
         ELSE Policy(ks, i + 1, cur, done)

Expected(f) == Policy(Kinds(f), 1, [open |-> FALSE, readings |-> <<>>], <<>>)

\* the temperature and humidity of a reading row: its last two fields
Measured(row) == SubSeq(row, Len(row) - 1, Len(row))

\* the parser ended normally with exactly the expected periods, in order,
\* each with the readings of its rows, in order
Reconstructed(out, f) ==
    LET want == Expected(f)
        rows == Rows(f)
    IN  /\ out.error = ""
        /\ Len(out.periods) = Len(want)
        /\ \A k \in 1..Len(want) :
              /\ Len(out.periods[k].readings) = Len(want[k])
              /\ \A m \in 1..Len(want[k]) :
                    out.periods[k].readings[m].data = Measured(rows[want[k][m]])

\* C13: the log of start, n ticks, stop has n+2 lines, and parsing it gives
\* one period with n readings and duration n.
C13_RoundTrip ==
    (/\ parsed.ran
     /\ periods = 1
     /\ ~access
     /\ Kinds(file) = <<"start">> \o [i \in 1..count |-> "reading"]
                        \o <<"stop">>) =>
        /\ Len(Lines(file)) = count + 2
        /\ parsed.error = ""
        /\ Len(parsed.periods) = 1
        /\ Len(parsed.periods[1].readings) = count
        /\ parsed.periods[1].duration = count

\* C14: of two starts followed by one stop the parser makes exactly one
\* period, holding only the readings after the second start.
C14_SecondStartWins ==
    LET ks == Kinds(file)
    IN  (/\ parsed.ran
         /\ Len(ks) >= 3
         /\ ks[1] = "start"
         /\ ks[Len(ks)] = "stop"
         /\ Cardinality({i \in 1..Len(ks) : ks[i] = "start"}) = 2
         /\ Cardinality({i \in 1..Len(ks) : ks[i] = "stop"}) = 1) =>
            /\ Reconstructed(parsed, file)
            /\ Len(parsed.periods) = 1

\* the file without its first line
AfterFirstLine(f) ==
    LET nl == CHOOSE i \in 1..Len(f) :
                  f[i] = "\n" /\ \A j \in 1..(i - 1) : f[j] # "\n"
    IN  SubSeq(f, nl + 1, Len(f))

\* C15: a reading or a stop met while no period is open is dropped: the
\* parser ends normally with what it makes of the log without that record.
C15_StrayRecordDropped ==
    (/\ parsed.ran
     /\ Len(Kinds(file)) >= 1
     /\ Kinds(file)[1] \in {"reading", "stop"}) =>
        /\ parsed.error = ""
        /\ parsed = Process(ModuleNames, exists, AfterFirstLine(file))

\* C16: a period still open at the end of the log is dropped: the output is
\* exactly the periods closed by a stop record.
C16_DanglingPeriodDropped ==
    (parsed.ran /\ OpenAfter(Kinds(file), FALSE) = "open") =>
        /\ Reconstructed(parsed, file)
        /\ Len(parsed.periods) =
              Cardinality({i \in 1..Len(Kinds(file)) : Kinds(file)[i] = "stop"})

\* C17: the periods come out in the order of their stop records, each with
\* exactly the reading records between its start and its stop, in file
\* order.
C17_PeriodsInFileOrder ==
    (parsed.ran /\ Len(Expected(file)) >= 1) => Reconstructed(parsed, file)

\* C18: on every log of start, reading and stop lines the parser ends
\* normally, with a list of periods and no exception.
C18_ParserNeverRaises ==
    parsed.ran => parsed.error = ""

\* C19: after init() the log is empty whatever access_data.csv held before,
\* and no record of an earlier run is ever in the log of the current run.
C19_InitStartsEmptyLog ==
    last.op # "boot" =>
        /\ exists
        /\ \A i \in 1..Len(file) : file[i] # "earlier"
        /\ last.op = "init" => file = <<>> /\ ~closed

C19_Witness ==
    /\ last.op = "init"
    /\ last.pre.file = Stale \o Stale

\* C20: once the run has ended, normally or with a failed write, the file
\* opened in init() has been closed.
C20_HandleReleased ==
    last.op = "deinit" => closed

\* C21: deinit() during an active access adds an ACCESS-STOPPED record
\* carrying the count and closes the log, and in the log of a run that was
\* shut down every ACCESS-STARTED has its ACCESS-STOPPED.
C21_ShutdownStopsAccess ==
    /\ (Ran("deinit") /\ ~last.raised /\ last.pre.access) =>
          LET added == Lines(Added(last.pre.file, file))
          IN  /\ closed
              /\ SubSeq(file, 1, Len(last.pre.file)) = last.pre.file
              /\ Len(added) = 1
              /\ Kind(added[1]) = "stop"
              /\ Fields(added[1])[Len(Fields(added[1]))] = ToString(count)
    /\ (closed /\ last.op # "boot") =>
          OpenAfter(Kinds(file), FALSE) = "shut"

C21_Witness ==
    /\ Ran("deinit")
    /\ last.pre.access
    /\ closed
    /\ count = 2
    /\ Kinds(file) = <<"start", "reading", "stop", "start", "reading",
                       "reading", "stop">>

\* C22: after any non-empty sequence of add_data_reading calls temp_max is
\* the largest temp_data added, zero and negative temperatures included.
C22_TempMaxIsLargest ==
    LET rs == period.data_readings
    IN  (period # NewPeriod /\ rs # <<>>) =>
            /\ period.temp_max.set
            /\ \A i \in 1..Len(rs) : rs[i].temp_data <= period.temp_max.value
            /\ \E i \in 1..Len(rs) : rs[i].temp_data = period.temp_max.value

\* C23: after any non-empty sequence of add_data_reading calls
\* humidity_average is the sum of the humidity_data added divided by their
\* number, zero humidities included.
C23_HumidityAverageIsMean ==
    LET rs == period.data_readings
        avg == period.humidity_average
    IN  (period # NewPeriod /\ rs # <<>>) =>
            /\ avg.set
            /\ avg.total * Len(rs) = SumHumidity(rs) * avg.n

\* C24: in the full variant the count is zero whenever no access is active
\* after a period has ended.
C24_CountResetAfterStop ==
    (variant = "full" /\ ~access /\ periods >= 1) => count = 0

RECURSIVE StopsCarryReadings(_, _, _)
\* from row i on, with n reading rows met since the last start row: every
\* stop row has the text of n as its last field
StopsCarryReadings(rows, i, n) ==
    IF i > Len(rows) THEN TRUE
    ELSE IF rows[i][1] = "ACCESS-STARTED"
         THEN StopsCarryReadings(rows, i + 1, 0)
    ELSE IF rows[i][1] = "ACCESS-STOPPED"
         THEN /\ rows[i][Len(rows[i])] = ToString(n)
              /\ StopsCarryReadings(rows, i + 1, n)
    ELSE StopsCarryReadings(rows, i + 1, n + 1)

\* C25: with loop(), the handlers and deinit() as atomic steps, the count in
\* every ACCESS-STOPPED record is the number of reading lines since its
\* ACCESS-STARTED, also when iterations of the period had no sensor data.
C25_StopCountIsReadings ==
    last.op # "boot" => StopsCarryReadings(Rows(file), 1, 0)

C25_Witness ==
    /\ variant = "mini"
    /\ nodata = 1
    /\ file = StartLine("mini", Datetime(0))
                \o DataLine(Datetime(0), 2150, 4500)
                \o DataLine(Datetime(2), 2150, 4500)
                \o StopLine("mini", Datetime(3), 2)

\* C26: when the handlers may interrupt loop() between any two statements,
\* no reading line follows an ACCESS-STOPPED record without an
\* ACCESS-STARTED record between them.
C26_NoReadingOutsidePeriod ==
    LET ks == Kinds(file)
    IN  \A i \in 1..(Len(ks) - 1) :
            ks[i] = "stop" => ks[i + 1] # "reading"

\* C27: when the handlers may interrupt loop() between the write of the
\* reading and the increment, and inside the increment, every
\* ACCESS-STOPPED record still carries the number of reading lines of its
\* period, and a period with no reading yet has count 0 once loop() is not
\* in progress.
C27_CountSurvivesInterrupts ==
    LET ks == Kinds(file)
    IN  /\ StopsCarryReadings(Rows(file), 1, 0)
        /\ (pc = "idle" /\ access /\ ks # <<>> /\ ks[Len(ks)] = "start") =>
              count = 0

\* C28: when stop may interrupt loop() between the access check and the
\* fill of the matrix, the matrix is off whenever loop() is not in progress
\* and no access is active.
C28_MatrixOffWhenIdle ==
    (pc = "idle" /\ ~access) => npm = Off

\* C29: however the stop handler and deinit() interleave, no two
\* ACCESS-STOPPED records are written for one ACCESS-STARTED record: the
\* stop records never outnumber the start records, and no line holds two.
C29_OneStopPerStart ==
    LET rows == Rows(file)
        ks == Kinds(file)
    IN  /\ Cardinality({i \in 1..Len(ks) : ks[i] = "stop"}) <=
               Cardinality({i \in 1..Len(ks) : ks[i] = "start"})
        /\ \A i \in 1..Len(rows) : \A j \in 2..Len(rows[i]) :
               rows[i][j] \notin {ToString(n) \o "ACCESS-STOPPED" :
                                     n \in 0..MaxIrq}

\* C30: a start, stop or tick whose log write fails ends in error and leaves
\* access, the count, the tier and everything else in memory, and the log,
\* as they were before the call.
C30_FailedWriteChangesNothing ==
    (last.raised /\ last.op \in {"start", "stop", "tick"}) =>
        /\ Snapshot = last.pre
        /\ access = last.pre.access
        /\ count = last.pre.count
        /\ warning_str = last.pre.warning_str
        /\ LedColour(variant, count) = LedColour(variant, last.pre.count)

C30_Witness ==
    /\ last.raised
    /\ last.op = "tick"
    /\ ~closed
    /\ access
    /\ count = 2
    /\ periods = 2

====
